---- MODULE Spec2Model ----
(***************************************************************************)
(* Model of the Starlink ping-drop monitor (pingmon.py, starlink_client.py) *)
(*                                                                         *)
(*   MetricsCollector   the aggregate state behind collector.lock          *)
(*   monitoring_loop    the poller thread (connect, get_status,            *)
(*                      get_history, update, error path, wait)             *)
(*   MetricsHandler     HTTP handler threads (do_GET)                      *)
(*   the dish           history.current and history.pop_ping_drop_rate as  *)
(*                      get_history reads them: the newest sample last     *)
(*                                                                         *)
(* Rates are in tenths (3 is 0.3), times in whole seconds.                 *)
(***************************************************************************)
EXTENDS Integers, Sequences, FiniteSets, TLC

\* ---------------------------------------------------------------- bounds
\* update calls made by the direct caller of SpecUpdate and SpecAlert
MaxCalls == 3
\* samples the direct caller passes in total
MaxFed == 4
\* poll cycles the poller starts
MaxCycles == 3
\* samples the dish produces in all (the largest history.current)
MaxCounter == 3
\* depth of the dish's history buffer
BufCap == 2
\* HTTP handler threads, and /metrics requests served in total
NumHandlers == 2
MaxScrapes == 2
\* the largest clock reading, seconds
MaxTime == 7
\* increment_errors calls made by the direct caller
MaxErrCalls == 1
\* update calls made while HTTP requests are served (SpecServe, SpecClock)
MaxServeCalls == 2
\* the longest a call to the dish takes, seconds (SpecRecover)
MaxLatency == 2

\* ------------------------------------------------------- program constants
\* POLL_INTERVAL, seconds (default of the environment variable)
POLL_INTERVAL == 2
\* ALERT_THRESHOLD, tenths (default 0.1)
ALERT_THRESHOLD == 1
\* Optional[int] = None of last_counter / start_counter
NoneCounter == -1

\* drop_rate arguments and history samples, tenths: 0.0, 0.1, 0.3
Rates == {0, 1, 3}
\* values of the environment variable ALERT_THRESHOLD, tenths: 0.0, 0.1, 0.3
Thresholds == {0, ALERT_THRESHOLD, 3}
SampleVals == {0, 3}

\* the keys of the status mapping that update copies into gauge / identity fields
\* (the field of key uptime_s is uptime_seconds, the others carry the key's name)
GaugeKeys ==
  {"pop_ping_latency_ms", "downlink_throughput_bps", "uplink_throughput_bps",
   "gps_sats", "gps_valid", "obstruction_fraction", "obstruction_time",
   "snr_above_noise_floor", "boresight_azimuth_deg", "boresight_elevation_deg",
   "uptime_s", "eth_speed_mbps", "hardware_version", "software_version",
   "country_code"}

BoolKeys == {"gps_valid", "snr_above_noise_floor"}
StrKeys == {"hardware_version", "software_version", "country_code"}

\* the second argument of each status.get(key, default); reset_metrics sets the same
GaugeDefault(k) ==
  IF k \in BoolKeys THEN FALSE ELSE IF k \in StrKeys THEN "unknown" ELSE 0

\* a value the dish reports for key k, v = 1, 2
DishValue(k, v) ==
  IF k \in BoolKeys THEN (v = 1) ELSE IF k \in StrKeys THEN (IF v = 1 THEN "rev1" ELSE "rev2") ELSE v

VARIABLES
  \* MetricsCollector
  lock,                \* collector.lock is locked (threading.Lock has no owner)
  current_drop_rate, peak_drop_rate, total_drop_time, total_samples,
  drop_events, last_update, last_was_dropping, errors_total, scrapes_total,
  gauges,              \* the fifteen gauge / identity fields, by status key
  last_counter,
  \* the thread calling update / increment_errors (the poller, or a direct caller)
  p_pc, loc_rate, loc_bulk, loc_status, loc_i, p_tmp,
  \* StarlinkClient and the shutdown event
  channel, shutdown_event,
  \* the dish
  dev_current, dev_hist,
  \* wall clock
  now,
  \* HTTP handler threads
  h_pc, h_path, h_tmp, h_snap, h_resp,
  \* history variables: what the direct caller has passed to update
  fed, rate_set, calls,
  \* history variables: the poller's cycles against the dish
  delivered,           \* how often each sequence number was passed to update
  dev_reset,           \* the dish has reset its counter
  dev_total,           \* samples the dish has produced, resets included
  cycles,              \* cycles started
  outage,              \* a cycle failed since the last successful one
  cyc,                 \* the last successful get_history of the poller
  \* history variables: calls completed
  committed,           \* the fields update writes, as the last finished update left them
  updates_done,        \* update calls that have returned
  error_calls, scrape_calls,
  \* history variables: HTTP requests
  h_age, h_base, scrape_reqs,
  \* the log: warnings emitted by update's alert check
  warnings,
  \* ALERT_THRESHOLD as read from the environment at import, tenths
  alert_threshold,
  \* history variable: the collector and the client as the cycle in progress found them
  cs,
  \* seconds the poller has spent in its current blocking call or wait
  p_elapsed,
  \* the dish: the longest it takes to answer a call, seconds, and whether it
  \* accepts connections and answers every request from now on
  dish_latency, stable,
  \* history variables: the /metrics requests of each handler
  h_before,            \* increment_scrapes calls completed before the handler's own
  h_floor,             \* the largest scrapes_total shown before the request began
  shown_max,           \* the largest scrapes_total shown in a finished response
  \* history variable: channels that connect has opened and nothing has closed
  open_channels

collVars == <<current_drop_rate, peak_drop_rate, total_drop_time, total_samples,
              drop_events, last_update, last_was_dropping, gauges>>
cntVars == <<errors_total, scrapes_total>>
locVars == <<loc_rate, loc_bulk, loc_status, loc_i>>
pollVars == <<last_counter, p_pc, locVars, p_tmp, channel>>
devVars == <<dev_current, dev_hist>>
hVars == <<h_pc, h_path, h_tmp, h_snap, h_resp, h_age, h_base, scrape_reqs>>
updG == <<fed, rate_set, calls>>
pollG == <<delivered, dev_reset, dev_total, cycles, outage, cyc>>
callG == <<committed, updates_done, error_calls, scrape_calls>>
auxVars == <<warnings, alert_threshold, cs, p_elapsed, dish_latency, stable>>
shownG == <<h_before, h_floor, shown_max>>

vars == <<lock, collVars, cntVars, pollVars, shutdown_event, devVars, now, hVars,
          updG, pollG, callG, auxVars, shownG, open_channels>>

Handlers == 1..NumHandlers

\* ------------------------------------------------------------ status mapping
\* status: dict = None is [present |-> FALSE]; a dict is [present |-> TRUE, map |-> f]
NoStatus == [present |-> FALSE, map |-> <<>>]
Dict(f) == [present |-> TRUE, map |-> f]

\* `if status:` -- None and the empty dict are both falsy
Truthy(status) == status.present /\ DOMAIN status.map # {}

\* status.get(k, default)
StatusGet(status, k, default) ==
  IF k \in DOMAIN status.map THEN status.map[k] ELSE default

\* ------------------------------------------------------- MetricsCollector
\* reset_metrics, the gauge block
InitGauges == [k \in GaugeKeys |-> GaugeDefault(k)]

\* mutant of NewPeak: the peak is overwritten by every call
NewPeakOverwritten(drop_rate, peak) == drop_rate

\* if drop_rate > self.peak_drop_rate: self.peak_drop_rate = drop_rate
NewPeak(drop_rate, peak) == IF drop_rate > peak THEN drop_rate ELSE peak

\* is_dropping = rate > 0
IsDropping(rate) == rate > 0

\* mutant of DropTimeAfter: every sample counts as a second of loss
DropTimeAfterAny(rate, t) == t + 1

\* if rate > 0: self.total_drop_time += 1.0
DropTimeAfter(rate, t) == IF rate > 0 THEN t + 1 ELSE t

\* mutant of DropEventsAfter: the end of a drop counts as an event as well
DropEventsAfterAnyChange(rate, was_dropping, n) ==
  IF IsDropping(rate) # was_dropping THEN n + 1 ELSE n

\* if is_dropping and not self.last_was_dropping: self.drop_events += 1
DropEventsAfter(rate, was_dropping, n) ==
  IF IsDropping(rate) /\ ~was_dropping THEN n + 1 ELSE n

\* the fifteen assignments self.<field> = status.get(<key>, <default>)
GaugesFrom(status) == [k \in GaugeKeys |-> StatusGet(status, k, GaugeDefault(k))]

\* mutant of Alert: a rate equal to the threshold warns as well
AlertInclusive(drop_rate, threshold) == drop_rate >= threshold

\* if drop_rate > ALERT_THRESHOLD: logger.warning(...)
Alert(drop_rate, threshold) == drop_rate > threshold

\* the fields update writes and get_metrics prints
UpdateFields ==
  [current_drop_rate |-> current_drop_rate, peak_drop_rate |-> peak_drop_rate,
   total_drop_time |-> total_drop_time, total_samples |-> total_samples,
   drop_events |-> drop_events, last_update |-> last_update, gauges |-> gauges]

\* mutant of UpdateBegin: the transition detector starts afresh in every call
UpdateBeginResetsFlag ==
  /\ p_pc = "update"
  /\ ~lock
  /\ lock' = TRUE
  /\ current_drop_rate' = loc_rate
  /\ last_update' = now
  /\ peak_drop_rate' = IF loc_rate > peak_drop_rate THEN loc_rate ELSE peak_drop_rate
  /\ last_was_dropping' = FALSE
  /\ loc_i' = 1
  /\ p_pc' = "update_loop"
  /\ UNCHANGED <<total_drop_time, total_samples, drop_events, gauges, cntVars,
                 last_counter, loc_rate, loc_bulk, loc_status, p_tmp, channel,
                 shutdown_event, devVars, now, hVars, updG, pollG, callG>>
  /\ UNCHANGED auxVars
  /\ UNCHANGED shownG
  /\ UNCHANGED open_channels

\* mutant of UpdateBegin: last_update is not set
UpdateBeginKeepsTime ==
  /\ p_pc = "update"
  /\ ~lock
  /\ lock' = TRUE
  /\ current_drop_rate' = loc_rate
  /\ peak_drop_rate' = NewPeak(loc_rate, peak_drop_rate)
  /\ loc_i' = 1
  /\ p_pc' = "update_loop"
  /\ UNCHANGED <<total_drop_time, total_samples, drop_events, last_was_dropping,
                 gauges, cntVars, last_counter, loc_rate, loc_bulk, loc_status,
                 p_tmp, channel, shutdown_event, devVars, now, hVars, updG, pollG,
                 callG, last_update>>
  /\ UNCHANGED auxVars
  /\ UNCHANGED shownG
  /\ UNCHANGED open_channels

\* update, lines 85-91: take the lock, set the current rate, the time and the peak
UpdateBegin ==
  /\ p_pc = "update"
  /\ ~lock
  /\ lock' = TRUE
  /\ current_drop_rate' = loc_rate
  /\ last_update' = now
  /\ peak_drop_rate' = NewPeak(loc_rate, peak_drop_rate)
  /\ loc_i' = 1
  /\ p_pc' = "update_loop"
  /\ UNCHANGED <<total_drop_time, total_samples, drop_events, last_was_dropping,
                 gauges, cntVars, last_counter, loc_rate, loc_bulk, loc_status,
                 p_tmp, channel, shutdown_event, devVars, now, hVars, updG, pollG,
                 callG>>
  /\ UNCHANGED auxVars
  /\ UNCHANGED shownG
  /\ UNCHANGED open_channels

\* update, lines 94-105: one iteration of `for rate in history_drops`
UpdateSample ==
  /\ p_pc = "update_loop"
  /\ loc_i <= Len(loc_bulk)
  /\ LET rate == loc_bulk[loc_i] IN
       /\ total_samples' = total_samples + 1
       /\ total_drop_time' = DropTimeAfter(rate, total_drop_time)
       /\ drop_events' = DropEventsAfter(rate, last_was_dropping, drop_events)
       /\ last_was_dropping' = IsDropping(rate)
  /\ loc_i' = loc_i + 1
  /\ UNCHANGED <<lock, current_drop_rate, peak_drop_rate, last_update, gauges,
                 cntVars, last_counter, p_pc, loc_rate, loc_bulk, loc_status,
                 p_tmp, channel, shutdown_event, devVars, now, hVars, updG, pollG,
                 callG>>
  /\ UNCHANGED auxVars
  /\ UNCHANGED shownG
  /\ UNCHANGED open_channels

\* mutant of UpdateEnd: update returns without releasing the lock
UpdateEndKeepsLock(ret) ==
  /\ p_pc = "update_loop"
  /\ loc_i > Len(loc_bulk)
  /\ gauges' = IF Truthy(loc_status) THEN GaugesFrom(loc_status) ELSE gauges
  /\ p_pc' = ret
  /\ committed' = [UpdateFields EXCEPT !.gauges = gauges']
  /\ updates_done' = updates_done + 1
  /\ warnings' = IF Alert(loc_rate, alert_threshold) THEN warnings + 1 ELSE warnings
  /\ loc_rate' = 0 /\ loc_bulk' = <<>> /\ loc_status' = NoStatus /\ loc_i' = 1
  /\ UNCHANGED <<lock, current_drop_rate, peak_drop_rate, total_drop_time,
                 total_samples, drop_events, last_update, last_was_dropping, cntVars,
                 last_counter, p_tmp, channel, shutdown_event, devVars, now, hVars,
                 updG, pollG, error_calls, scrape_calls>>
  /\ UNCHANGED <<alert_threshold, cs, p_elapsed, dish_latency, stable>>
  /\ UNCHANGED shownG
  /\ UNCHANGED open_channels

\* update, lines 107-130: the gauges, the alert (a log line), and the end of
\* `with self.lock`; update returns (its arguments are gone) and the caller
\* continues at ret
UpdateEnd(ret) ==
  /\ p_pc = "update_loop"
  /\ loc_i > Len(loc_bulk)
  /\ gauges' = IF Truthy(loc_status) THEN GaugesFrom(loc_status) ELSE gauges
  /\ lock' = FALSE
  /\ p_pc' = ret
  /\ committed' = [UpdateFields EXCEPT !.gauges = gauges']
  /\ updates_done' = updates_done + 1
  /\ warnings' = IF Alert(loc_rate, alert_threshold) THEN warnings + 1 ELSE warnings
  /\ loc_rate' = 0 /\ loc_bulk' = <<>> /\ loc_status' = NoStatus /\ loc_i' = 1
  /\ UNCHANGED <<current_drop_rate, peak_drop_rate, total_drop_time, total_samples,
                 drop_events, last_update, last_was_dropping, cntVars, last_counter,
                 p_tmp, channel, shutdown_event, devVars, now, hVars, updG, pollG,
                 error_calls, scrape_calls>>
  /\ UNCHANGED <<alert_threshold, cs, p_elapsed, dish_latency, stable>>
  /\ UNCHANGED shownG
  /\ UNCHANGED open_channels

\* increment_errors: `with self.lock`, the load of self.errors_total += 1
IncrementErrorsBegin ==
  /\ p_pc = "increment_errors"
  /\ ~lock
  /\ lock' = TRUE
  /\ p_tmp' = errors_total
  /\ p_pc' = "increment_errors_store"
  /\ UNCHANGED <<collVars, cntVars, last_counter, locVars, channel, shutdown_event,
                 devVars, now, hVars, updG, pollG, callG>>
  /\ UNCHANGED auxVars
  /\ UNCHANGED shownG
  /\ UNCHANGED open_channels

\* mutant of IncrementErrorsEnd: the caller continues inside the `with self.lock`
IncrementErrorsEndKeepsLock(ret) ==
  /\ p_pc = "increment_errors_store"
  /\ errors_total' = p_tmp + 1
  /\ p_pc' = ret
  /\ error_calls' = error_calls + 1
  /\ p_tmp' = 0
  /\ UNCHANGED <<lock, collVars, scrapes_total, last_counter, locVars, channel,
                 shutdown_event, devVars, now, hVars, updG, pollG, committed,
                 updates_done, scrape_calls>>
  /\ UNCHANGED auxVars
  /\ UNCHANGED shownG
  /\ UNCHANGED open_channels

\* increment_errors: the store of self.errors_total += 1, and the end of the with;
\* ret is where the caller continues
IncrementErrorsEnd(ret) ==
  /\ p_pc = "increment_errors_store"
  /\ errors_total' = p_tmp + 1
  /\ lock' = FALSE
  /\ p_pc' = ret
  /\ error_calls' = error_calls + 1
  /\ p_tmp' = 0
  /\ UNCHANGED <<collVars, scrapes_total, last_counter, locVars, channel,
                 shutdown_event, devVars, now, hVars, updG, pollG, committed,
                 updates_done, scrape_calls>>
  /\ UNCHANGED auxVars
  /\ UNCHANGED shownG
  /\ UNCHANGED open_channels

\* ------------------------------------------------------------- the dish
Min(a, b) == IF a < b THEN a ELSE b

\* the newest n elements of s
LastN(s, n) == SubSeq(s, Len(s) - n + 1, Len(s))

\* the dish records one more sample: history.current grows by one and the
\* buffer keeps the newest BufCap samples, the newest last
DeviceSample(r) ==
  /\ dev_total < MaxCounter
  /\ dev_total' = dev_total + 1
  /\ dev_current' = dev_current + 1
  /\ dev_hist' = LET h == Append(dev_hist, r) IN LastN(h, Min(Len(h), BufCap))
  /\ UNCHANGED <<lock, collVars, cntVars, pollVars, shutdown_event, now, hVars,
                 updG, delivered, dev_reset, cycles, outage, cyc, callG>>
  /\ UNCHANGED auxVars
  /\ UNCHANGED shownG
  /\ UNCHANGED open_channels

\* the dish reboots: its counter and its buffer start again
DeviceReset ==
  /\ ~dev_reset
  /\ dev_current > 0
  /\ dev_current' = 0
  /\ dev_hist' = <<>>
  /\ dev_reset' = TRUE
  /\ UNCHANGED <<lock, collVars, cntVars, pollVars, shutdown_event, now, hVars,
                 updG, delivered, dev_total, cycles, outage, cyc, callG>>
  /\ UNCHANGED auxVars
  /\ UNCHANGED shownG
  /\ UNCHANGED open_channels

\* the clock advances by a second
Tick ==
  /\ now < MaxTime
  /\ now' = now + 1
  /\ UNCHANGED <<lock, collVars, cntVars, pollVars, shutdown_event, devVars, hVars,
                 updG, pollG, callG>>
  /\ UNCHANGED auxVars
  /\ UNCHANGED shownG
  /\ UNCHANGED open_channels

\* the steps of the poller that block: a call to the dish, or the wait
Blocking == {"connect", "get_status", "get_history", "wait"}

\* a second passes while the poller is in a call to the dish that has not yet
\* taken dish_latency seconds, or in a wait that has not yet lasted
\* POLL_INTERVAL seconds and that no shutdown ends; its other steps take no time
TickPoll ==
  /\ now < MaxTime
  /\ p_pc \in Blocking
  /\ p_pc = "wait" => (p_elapsed < POLL_INTERVAL /\ ~shutdown_event)
  /\ p_pc # "wait" => p_elapsed < dish_latency
  /\ now' = now + 1
  /\ p_elapsed' = p_elapsed + 1
  /\ UNCHANGED <<lock, collVars, cntVars, pollVars, shutdown_event, devVars, hVars,
                 updG, pollG, callG, warnings, alert_threshold, cs, dish_latency,
                 stable>>
  /\ UNCHANGED shownG
  /\ UNCHANGED open_channels

\* ---------------------------------------------------------- StarlinkClient
\* mutant of StartIdx: the incremental slice starts one sample late
StartIdxLate(samples, start_counter, end_counter, total) ==
  IF start_counter # NoneCounter /\ start_counter < end_counter
  THEN LET new_samples == end_counter - start_counter IN
       total - (IF new_samples > total THEN total ELSE new_samples - 1)
  ELSE IF samples < 0 \/ samples > total THEN 0 ELSE total - samples

\* mutant of StartIdx: with a counter that is not below end_counter nothing is returned
StartIdxIncrementalOnly(samples, start_counter, end_counter, total) ==
  IF start_counter # NoneCounter
  THEN LET new_samples == IF start_counter < end_counter
                          THEN end_counter - start_counter ELSE 0 IN
       total - (IF new_samples > total THEN total ELSE new_samples)
  ELSE IF samples < 0 \/ samples > total THEN 0 ELSE total - samples

\* mutant of StartIdx: without a start counter only the newest sample is returned
StartIdxNewestOnly(samples, start_counter, end_counter, total) ==
  IF start_counter # NoneCounter /\ start_counter < end_counter
  THEN LET new_samples == end_counter - start_counter IN
       total - (IF new_samples > total THEN total ELSE new_samples)
  ELSE IF total > 0 THEN total - 1 ELSE 0

\* get_history, lines 160-173: the index of the first sample returned
StartIdx(samples, start_counter, end_counter, total) ==
  IF start_counter # NoneCounter /\ start_counter < end_counter
  THEN LET new_samples == end_counter - start_counter IN
       total - (IF new_samples > total THEN total ELSE new_samples)
  ELSE IF samples < 0 \/ samples > total THEN 0 ELSE total - samples

\* list(history.pop_ping_drop_rate[start_idx:])
Slice(hist, start_idx) == SubSeq(hist, start_idx + 1, Len(hist))

\* the mapping get_status returns: every key, with the dish's values
StatusOf(rate, v) ==
  Dict([k \in GaugeKeys \cup {"pop_ping_drop_rate"} |->
          IF k = "pop_ping_drop_rate" THEN rate ELSE DishValue(k, v)])

\* what the dish answers to get_status: no loss, or 0.3 loss with other readings
DishStatuses == {StatusOf(0, 1), StatusOf(3, 2)}

\* the sequence numbers of a batch of n samples ending at end_counter
BatchSeqs(end_counter, n) == (end_counter - n + 1)..end_counter

\* --------------------------------------------------------- monitoring_loop
\* every field of the collector that update writes
CollectorFields == [upd |-> UpdateFields, last_was_dropping |-> last_was_dropping]

\* what a cycle finds when it starts, and the call of it that failed
CycleStart ==
  [started |-> TRUE, errors_total |-> errors_total, updates_done |-> updates_done,
   fields |-> CollectorFields, last_counter |-> last_counter,
   connected |-> channel # "None", failed |-> "none"]

\* no cycle in progress
NoCycle ==
  [started |-> FALSE, errors_total |-> 0, updates_done |-> 0,
   fields |-> [upd |-> [current_drop_rate |-> 0, peak_drop_rate |-> 0,
                        total_drop_time |-> 0, total_samples |-> 0,
                        drop_events |-> 0, last_update |-> 0, gauges |-> InitGauges],
               last_was_dropping |-> FALSE],
   last_counter |-> NoneCounter, connected |-> FALSE, failed |-> "none"]

\* mutant of LoopTest: the loop condition does not look at the event
LoopTestIgnoresShutdown ==
  /\ p_pc = "loop"
  /\ cycles < MaxCycles
  /\ cycles' = cycles + 1
  /\ p_pc' = IF channel = "None" THEN "connect" ELSE "get_status"
  /\ cs' = CycleStart
  /\ UNCHANGED <<lock, collVars, cntVars, last_counter, locVars, p_tmp, channel,
                 shutdown_event, devVars, now, hVars, updG, delivered, dev_reset,
                 dev_total, outage, cyc, callG>>
  /\ UNCHANGED <<warnings, alert_threshold, p_elapsed, dish_latency, stable>>
  /\ UNCHANGED shownG
  /\ UNCHANGED open_channels

\* `while not shutdown_event.is_set()` and `if client.channel is None`
LoopTest ==
  /\ p_pc = "loop"
  /\ \/ /\ shutdown_event
        /\ p_pc' = "cleanup"
        /\ UNCHANGED <<cycles, cs>>
     \/ /\ ~shutdown_event
        /\ cycles < MaxCycles
        /\ cycles' = cycles + 1
        /\ p_pc' = IF channel = "None" THEN "connect" ELSE "get_status"
        /\ cs' = CycleStart
  /\ UNCHANGED <<lock, collVars, cntVars, last_counter, locVars, p_tmp, channel,
                 shutdown_event, devVars, now, hVars, updG, delivered, dev_reset,
                 dev_total, outage, cyc, callG>>
  /\ UNCHANGED <<warnings, alert_threshold, p_elapsed, dish_latency, stable>>
  /\ UNCHANGED shownG
  /\ UNCHANGED open_channels

\* mutant of Connect: a failed connect ends the loop
ConnectFailureEndsLoop ==
  /\ p_pc = "connect"
  /\ channel' = "open"
  /\ \/ /\ p_pc' = "get_status"
        /\ UNCHANGED <<outage, cs>>
     \/ /\ ~stable
        /\ p_pc' = "cleanup"
        /\ outage' = TRUE
        /\ cs' = [cs EXCEPT !.failed = "connect"]
  /\ p_elapsed' = 0
  /\ UNCHANGED <<lock, collVars, cntVars, last_counter, locVars, p_tmp,
                 shutdown_event, devVars, now, hVars, updG, delivered, dev_reset,
                 dev_total, cycles, cyc, callG>>
  /\ UNCHANGED <<warnings, alert_threshold, dish_latency, stable>>
  /\ UNCHANGED shownG
  /\ open_channels' = open_channels + 1

\* client.connect(): self.channel is assigned first; load_protocols may raise,
\* which the loop's `except Exception` catches
Connect ==
  /\ p_pc = "connect"
  /\ channel' = "open"
  /\ \/ /\ p_pc' = "get_status"
        /\ UNCHANGED <<outage, cs>>
     \/ /\ ~stable
        /\ p_pc' = "increment_errors"
        /\ outage' = TRUE
        /\ cs' = [cs EXCEPT !.failed = "connect"]
  /\ p_elapsed' = 0
  /\ UNCHANGED <<lock, collVars, cntVars, last_counter, locVars, p_tmp,
                 shutdown_event, devVars, now, hVars, updG, delivered, dev_reset,
                 dev_total, cycles, cyc, callG>>
  /\ UNCHANGED <<warnings, alert_threshold, dish_latency, stable>>
  /\ UNCHANGED shownG
  /\ open_channels' = open_channels + 1

\* status = client.get_status(); current_drop_rate = status["pop_ping_drop_rate"]
GetStatus ==
  /\ p_pc = "get_status"
  /\ \/ /\ \E st \in DishStatuses :
             /\ loc_status' = st
             /\ loc_rate' = st.map["pop_ping_drop_rate"]
        /\ p_pc' = "get_history"
        /\ UNCHANGED <<outage, cs>>
     \/ /\ ~stable
        /\ p_pc' = "increment_errors"
        /\ outage' = TRUE
        /\ cs' = [cs EXCEPT !.failed = "get_status"]
        /\ UNCHANGED <<loc_status, loc_rate>>
  /\ p_elapsed' = 0
  /\ UNCHANGED <<lock, collVars, cntVars, last_counter, loc_bulk, loc_i, p_tmp,
                 channel, shutdown_event, devVars, now, hVars, updG, delivered,
                 dev_reset, dev_total, cycles, cyc, callG>>
  /\ UNCHANGED <<warnings, alert_threshold, dish_latency, stable>>
  /\ UNCHANGED shownG
  /\ UNCHANGED open_channels

\* general, bulk = client.get_history(samples=-1, start_counter=collector.last_counter)
\* collector.last_counter = general["end_counter"]
GetHistory ==
  /\ p_pc = "get_history"
  /\ \/ LET end_counter == dev_current
            total == Len(dev_hist)
            batch == Slice(dev_hist, StartIdx(-1, last_counter, end_counter, total))
        IN /\ loc_bulk' = batch
           /\ last_counter' = end_counter
           /\ p_pc' = "update"
           /\ delivered' = [s \in DOMAIN delivered |->
                              IF s \in BatchSeqs(end_counter, Len(batch))
                              THEN delivered[s] + 1 ELSE delivered[s]]
           /\ cyc' = [after_outage |-> outage, prev_counter |-> last_counter,
                      end_counter |-> end_counter, hist |-> dev_hist,
                      batch |-> batch, base_total |-> total_samples,
                      reset |-> dev_reset]
           /\ outage' = FALSE
           /\ UNCHANGED cs
     \/ /\ ~stable
        /\ p_pc' = "increment_errors"
        /\ outage' = TRUE
        /\ cs' = [cs EXCEPT !.failed = "get_history"]
        /\ UNCHANGED <<loc_bulk, last_counter, delivered, cyc>>
  /\ p_elapsed' = 0
  /\ UNCHANGED <<lock, collVars, cntVars, loc_rate, loc_status, loc_i, p_tmp,
                 channel, shutdown_event, devVars, now, hVars, updG, dev_reset,
                 dev_total, cycles, callG>>
  /\ UNCHANGED <<warnings, alert_threshold, dish_latency, stable>>
  /\ UNCHANGED shownG
  /\ UNCHANGED open_channels

\* mutant of Close: the channel is closed but client.channel is not set to None
CloseKeepsChannel ==
  /\ p_pc = "close"
  /\ channel' = IF channel = "open" THEN "closed" ELSE channel
  /\ p_pc' = "wait"
  /\ UNCHANGED <<lock, collVars, cntVars, last_counter, locVars, p_tmp,
                 shutdown_event, devVars, now, hVars, updG, pollG, callG>>
  /\ UNCHANGED auxVars
  /\ UNCHANGED shownG
  /\ open_channels' = IF channel = "open" THEN open_channels - 1 ELSE open_channels

\* mutant of Close: client.channel is set to None and the channel is left open
CloseDropsChannel ==
  /\ p_pc = "close"
  /\ channel' = "None"
  /\ p_pc' = "wait"
  /\ UNCHANGED <<lock, collVars, cntVars, last_counter, locVars, p_tmp,
                 shutdown_event, devVars, now, hVars, updG, pollG, callG>>
  /\ UNCHANGED auxVars
  /\ UNCHANGED shownG
  /\ UNCHANGED open_channels

\* the except branch after increment_errors: client.close(); client.channel = None
Close ==
  /\ p_pc = "close"
  /\ channel' = "None"
  /\ p_pc' = "wait"
  /\ UNCHANGED <<lock, collVars, cntVars, last_counter, locVars, p_tmp,
                 shutdown_event, devVars, now, hVars, updG, pollG, callG>>
  /\ UNCHANGED auxVars
  /\ UNCHANGED shownG
  /\ open_channels' = IF channel = "open" THEN open_channels - 1 ELSE open_channels

\* shutdown_event.wait(POLL_INTERVAL) returns
Wait ==
  /\ p_pc = "wait"
  /\ p_pc' = "loop"
  /\ p_elapsed' = 0
  /\ cs' = NoCycle
  /\ UNCHANGED <<lock, collVars, cntVars, last_counter, locVars, p_tmp, channel,
                 shutdown_event, devVars, now, hVars, updG, pollG, callG>>
  /\ UNCHANGED <<warnings, alert_threshold, dish_latency, stable>>
  /\ UNCHANGED shownG
  /\ UNCHANGED open_channels

\* the dish accepts connections and answers every request from now on
Stabilize ==
  /\ ~stable
  /\ stable' = TRUE
  /\ UNCHANGED <<lock, collVars, cntVars, pollVars, shutdown_event, devVars, now,
                 hVars, updG, pollG, callG, warnings, alert_threshold, cs,
                 p_elapsed, dish_latency>>
  /\ UNCHANGED shownG
  /\ UNCHANGED open_channels

\* after the loop: client.close(), which closes the channel if there is one
Cleanup ==
  /\ p_pc = "cleanup"
  /\ channel' = IF channel = "open" THEN "closed" ELSE channel
  /\ p_pc' = "done"
  /\ UNCHANGED <<lock, collVars, cntVars, last_counter, locVars, p_tmp,
                 shutdown_event, devVars, now, hVars, updG, pollG, callG>>
  /\ UNCHANGED auxVars
  /\ UNCHANGED shownG
  /\ open_channels' = IF channel = "open" THEN open_channels - 1 ELSE open_channels

\* signal_handler / the finally of main: shutdown_event.set()
Shutdown ==
  /\ ~shutdown_event
  /\ shutdown_event' = TRUE
  /\ UNCHANGED <<lock, collVars, cntVars, pollVars, devVars, now, hVars, updG,
                 pollG, callG>>
  /\ UNCHANGED auxVars
  /\ UNCHANGED shownG
  /\ UNCHANGED open_channels

\* ------------------------------------------------- a direct caller of update
\* all sequences over S of length at most n
SeqsUpTo(S, n) == UNION {[1..m -> S] : m \in 0..n}

\* status arguments: None, the empty dict, every key, two keys only
StatusInputs ==
  {NoStatus, Dict(<<>>), Dict([k \in GaugeKeys |-> DishValue(k, 1)]),
   Dict([k \in {"gps_valid", "hardware_version"} |-> DishValue(k, 2)])}

\* the status argument of the calls made while requests are served or alerts counted
ServeStatus == Dict([k \in GaugeKeys |-> DishValue(k, 1)])

\* collector.update(rate, batch, st), called on its own
CallerUpdate(rate, batch, st) ==
  /\ p_pc = "caller"
  /\ calls < MaxCalls
  /\ Len(fed) + Len(batch) <= MaxFed
  /\ loc_rate' = rate
  /\ loc_bulk' = batch
  /\ loc_status' = st
  /\ fed' = fed \o batch
  /\ rate_set' = rate_set \cup {rate}
  /\ calls' = calls + 1
  /\ p_pc' = "update"
  /\ UNCHANGED <<lock, collVars, cntVars, last_counter, loc_i, p_tmp, channel,
                 shutdown_event, devVars, now, hVars, pollG, callG>>
  /\ UNCHANGED auxVars
  /\ UNCHANGED shownG
  /\ UNCHANGED open_channels

\* collector.increment_errors(), called on its own
CallerIncrementErrors ==
  /\ p_pc = "caller"
  /\ error_calls < MaxErrCalls
  /\ p_pc' = "increment_errors"
  /\ UNCHANGED <<lock, collVars, cntVars, last_counter, locVars, p_tmp, channel,
                 shutdown_event, devVars, now, hVars, updG, pollG, callG>>
  /\ UNCHANGED auxVars
  /\ UNCHANGED shownG
  /\ UNCHANGED open_channels

\* ---------------------------------------------------------- MetricsHandler
Paths == {"/metrics", "/health", "/other"}

\* what get_metrics formats: every field, read inside `with self.lock`
Snapshot ==
  [upd |-> UpdateFields, errors_total |-> errors_total,
   scrapes_total |-> scrapes_total, uptime |-> now]

\* the snapshot of a collector as reset_metrics leaves it at clock reading 0
InitSnapshot ==
  [upd |-> [current_drop_rate |-> 0, peak_drop_rate |-> 0, total_drop_time |-> 0,
            total_samples |-> 0, drop_events |-> 0, last_update |-> 0,
            gauges |-> InitGauges],
   errors_total |-> 0, scrapes_total |-> 0, uptime |-> 0]

\* mutant of Healthy: an age of exactly three intervals still counts as fresh
HealthyInclusive(time_since_update) == time_since_update <= (POLL_INTERVAL * 3)

\* healthy = time_since_update < (POLL_INTERVAL * 3)
Healthy(time_since_update) == time_since_update < (POLL_INTERVAL * 3)

\* mutant of Request: /health counts as a scrape too
RequestCountsHealth(h, path) ==
  /\ h_pc[h] = "idle"
  /\ path = "/metrics" => scrape_reqs < MaxScrapes
  /\ scrape_reqs' = IF path = "/metrics" THEN scrape_reqs + 1 ELSE scrape_reqs
  /\ h_path' = [h_path EXCEPT ![h] = path]
  /\ h_pc' = [h_pc EXCEPT ![h] = IF path \in {"/metrics", "/health"}
                                 THEN "increment_scrapes" ELSE "respond"]
  /\ h_resp' = [h_resp EXCEPT ![h] = IF path \in {"/metrics", "/health"} THEN 0 ELSE 404]
  /\ UNCHANGED <<lock, collVars, cntVars, pollVars, shutdown_event, devVars, now,
                 h_tmp, h_snap, h_age, h_base, updG, pollG, callG>>
  /\ UNCHANGED auxVars
  /\ h_floor' = [h_floor EXCEPT ![h] = shown_max]
  /\ UNCHANGED <<h_before, shown_max>>
  /\ UNCHANGED open_channels

\* mutant of Request: /metrics is rendered without increment_scrapes
RequestSkipsIncrement(h, path) ==
  /\ h_pc[h] = "idle"
  /\ path = "/metrics" => scrape_reqs < MaxScrapes
  /\ scrape_reqs' = IF path = "/metrics" THEN scrape_reqs + 1 ELSE scrape_reqs
  /\ h_path' = [h_path EXCEPT ![h] = path]
  /\ h_pc' = [h_pc EXCEPT ![h] = IF path = "/metrics" THEN "get_metrics"
                                 ELSE IF path = "/health" THEN "health"
                                 ELSE "respond"]
  /\ h_resp' = [h_resp EXCEPT ![h] = IF path \in {"/metrics", "/health"} THEN 0 ELSE 404]
  /\ UNCHANGED <<lock, collVars, cntVars, pollVars, shutdown_event, devVars, now,
                 h_tmp, h_snap, h_age, h_base, updG, pollG, callG>>
  /\ UNCHANGED auxVars
  /\ h_floor' = [h_floor EXCEPT ![h] = shown_max]
  /\ UNCHANGED <<h_before, shown_max>>
  /\ UNCHANGED open_channels

\* do_GET is entered with self.path = path; any other path answers 404 at once
Request(h, path) ==
  /\ h_pc[h] = "idle"
  /\ path = "/metrics" => scrape_reqs < MaxScrapes
  /\ scrape_reqs' = IF path = "/metrics" THEN scrape_reqs + 1 ELSE scrape_reqs
  /\ h_path' = [h_path EXCEPT ![h] = path]
  /\ h_pc' = [h_pc EXCEPT ![h] = IF path = "/metrics" THEN "increment_scrapes"
                                 ELSE IF path = "/health" THEN "health"
                                 ELSE "respond"]
  /\ h_resp' = [h_resp EXCEPT ![h] = IF path \in {"/metrics", "/health"} THEN 0 ELSE 404]
  /\ UNCHANGED <<lock, collVars, cntVars, pollVars, shutdown_event, devVars, now,
                 h_tmp, h_snap, h_age, h_base, updG, pollG, callG>>
  /\ UNCHANGED auxVars
  /\ h_floor' = [h_floor EXCEPT ![h] = shown_max]
  /\ UNCHANGED <<h_before, shown_max>>
  /\ UNCHANGED open_channels

\* mutant of IncrementScrapesBegin: the counter is loaded without the lock
IncrementScrapesBeginNoLock(h) ==
  /\ h_pc[h] = "increment_scrapes"
  /\ h_tmp' = [h_tmp EXCEPT ![h] = scrapes_total]
  /\ h_pc' = [h_pc EXCEPT ![h] = "increment_scrapes_store"]
  /\ UNCHANGED <<lock, collVars, cntVars, pollVars, shutdown_event, devVars, now,
                 h_path, h_snap, h_resp, h_age, h_base, scrape_reqs, updG, pollG,
                 callG>>
  /\ UNCHANGED auxVars
  /\ UNCHANGED shownG
  /\ UNCHANGED open_channels

\* increment_scrapes: `with self.lock`, the load of self.scrapes_total += 1
IncrementScrapesBegin(h) ==
  /\ h_pc[h] = "increment_scrapes"
  /\ ~lock
  /\ lock' = TRUE
  /\ h_tmp' = [h_tmp EXCEPT ![h] = scrapes_total]
  /\ h_pc' = [h_pc EXCEPT ![h] = "increment_scrapes_store"]
  /\ UNCHANGED <<collVars, cntVars, pollVars, shutdown_event, devVars, now, h_path,
                 h_snap, h_resp, h_age, h_base, scrape_reqs, updG, pollG, callG>>
  /\ UNCHANGED auxVars
  /\ UNCHANGED shownG
  /\ UNCHANGED open_channels

\* increment_scrapes: the store of self.scrapes_total += 1, and the end of the with
IncrementScrapesEnd(h) ==
  /\ h_pc[h] = "increment_scrapes_store"
  /\ scrapes_total' = h_tmp[h] + 1
  /\ lock' = FALSE
  /\ h_pc' = [h_pc EXCEPT ![h] = "get_metrics"]
  /\ scrape_calls' = scrape_calls + 1
  /\ UNCHANGED <<collVars, errors_total, pollVars, shutdown_event, devVars, now,
                 h_path, h_tmp, h_snap, h_resp, h_age, h_base, scrape_reqs, updG,
                 pollG, committed, updates_done, error_calls>>
  /\ UNCHANGED auxVars
  /\ h_before' = [h_before EXCEPT ![h] = scrape_calls]
  /\ UNCHANGED <<h_floor, shown_max>>
  /\ UNCHANGED open_channels

\* mutant of GetMetrics: the fields are read without the lock
GetMetricsNoLock(h) ==
  /\ h_pc[h] = "get_metrics"
  /\ h_snap' = [h_snap EXCEPT ![h] = Snapshot]
  /\ h_base' = [h_base EXCEPT ![h] = committed]
  /\ h_resp' = [h_resp EXCEPT ![h] = 200]
  /\ h_pc' = [h_pc EXCEPT ![h] = "respond"]
  /\ UNCHANGED <<lock, collVars, cntVars, pollVars, shutdown_event, devVars, now,
                 h_path, h_tmp, h_age, scrape_reqs, updG, pollG, callG>>
  /\ UNCHANGED auxVars
  /\ UNCHANGED shownG
  /\ UNCHANGED open_channels

\* get_metrics: the whole `with self.lock` block, then send_response(200)
GetMetrics(h) ==
  /\ h_pc[h] = "get_metrics"
  /\ ~lock
  /\ h_snap' = [h_snap EXCEPT ![h] = Snapshot]
  /\ h_base' = [h_base EXCEPT ![h] = committed]
  /\ h_resp' = [h_resp EXCEPT ![h] = 200]
  /\ h_pc' = [h_pc EXCEPT ![h] = "respond"]
  /\ UNCHANGED <<lock, collVars, cntVars, pollVars, shutdown_event, devVars, now,
                 h_path, h_tmp, h_age, scrape_reqs, updG, pollG, callG>>
  /\ UNCHANGED auxVars
  /\ UNCHANGED shownG
  /\ UNCHANGED open_channels

\* the /health branch: `with collector.lock` reads the clock and last_update,
\* then 200 if healthy else 503
HealthCheck(h) ==
  /\ h_pc[h] = "health"
  /\ ~lock
  /\ LET time_since_update == now - last_update IN
       /\ h_age' = [h_age EXCEPT ![h] = time_since_update]
       /\ h_resp' = [h_resp EXCEPT ![h] = IF Healthy(time_since_update) THEN 200 ELSE 503]
  /\ h_pc' = [h_pc EXCEPT ![h] = "respond"]
  /\ UNCHANGED <<lock, collVars, cntVars, pollVars, shutdown_event, devVars, now,
                 h_path, h_tmp, h_snap, h_base, scrape_reqs, updG, pollG, callG>>
  /\ UNCHANGED auxVars
  /\ UNCHANGED shownG
  /\ UNCHANGED open_channels

\* the response is written and do_GET returns: the handler's locals are gone
Respond(h) ==
  /\ h_pc[h] = "respond"
  /\ h_pc' = [h_pc EXCEPT ![h] = "idle"]
  /\ h_path' = [h_path EXCEPT ![h] = "/other"]
  /\ h_tmp' = [h_tmp EXCEPT ![h] = 0]
  /\ h_snap' = [h_snap EXCEPT ![h] = InitSnapshot]
  /\ h_resp' = [h_resp EXCEPT ![h] = 0]
  /\ h_age' = [h_age EXCEPT ![h] = 0]
  /\ h_base' = [h_base EXCEPT ![h] = InitSnapshot.upd]
  /\ UNCHANGED <<lock, collVars, cntVars, pollVars, shutdown_event, devVars, now,
                 scrape_reqs, updG, pollG, callG>>
  /\ UNCHANGED auxVars
  /\ shown_max' = IF h_path[h] = "/metrics" /\ h_snap[h].scrapes_total > shown_max
                  THEN h_snap[h].scrapes_total ELSE shown_max
  /\ h_before' = [h_before EXCEPT ![h] = 0]
  /\ h_floor' = [h_floor EXCEPT ![h] = 0]
  /\ UNCHANGED open_channels

\* ------------------------------------------------------------------ Init
\* MetricsCollector(), StarlinkClient(target), threading.Event(), the dish before
\* its first sample, no request in progress; the clock reads 0 at construction
InitCommon ==
  /\ lock = FALSE
  /\ current_drop_rate = 0
  /\ peak_drop_rate = 0
  /\ total_drop_time = 0
  /\ total_samples = 0
  /\ drop_events = 0
  /\ now = 0
  /\ last_update = 0
  /\ last_was_dropping = FALSE
  /\ errors_total = 0
  /\ scrapes_total = 0
  /\ gauges = InitGauges
  /\ last_counter = NoneCounter
  /\ loc_rate = 0
  /\ loc_bulk = <<>>
  /\ loc_status = NoStatus
  /\ loc_i = 1
  /\ p_tmp = 0
  /\ channel = "None"
  /\ shutdown_event = FALSE
  /\ dev_current = 0
  /\ dev_hist = <<>>
  /\ h_pc = [h \in Handlers |-> "idle"]
  /\ h_path = [h \in Handlers |-> "/other"]
  /\ h_tmp = [h \in Handlers |-> 0]
  /\ h_snap = [h \in Handlers |-> InitSnapshot]
  /\ h_resp = [h \in Handlers |-> 0]
  /\ h_age = [h \in Handlers |-> 0]
  /\ h_base = [h \in Handlers |-> InitSnapshot.upd]
  /\ scrape_reqs = 0
  /\ fed = <<>>
  /\ rate_set = {}
  /\ calls = 0
  /\ delivered = [s \in 1..MaxCounter |-> 0]
  /\ dev_reset = FALSE
  /\ dev_total = 0
  /\ cycles = 0
  /\ outage = FALSE
  /\ cyc = [after_outage |-> FALSE, prev_counter |-> NoneCounter,
            end_counter |-> 0, hist |-> <<>>, batch |-> <<>>, base_total |-> 0,
            reset |-> FALSE]
  /\ committed = InitSnapshot.upd
  /\ updates_done = 0
  /\ error_calls = 0
  /\ scrape_calls = 0
  /\ warnings = 0
  /\ h_before = [h \in Handlers |-> 0]
  /\ h_floor = [h \in Handlers |-> 0]
  /\ shown_max = 0
  /\ open_channels = 0
  /\ cs = NoCycle
  /\ p_elapsed = 0
  /\ stable = FALSE

\* the configuration: ALERT_THRESHOLD at its default, a dish that answers at once
InitConfig ==
  /\ alert_threshold = ALERT_THRESHOLD
  /\ dish_latency = 0

\* the monitor as main() starts it: the poller is about to test its loop condition
Init == InitCommon /\ InitConfig /\ p_pc = "loop"

\* a collector whose update is called directly
InitCaller == InitCommon /\ InitConfig /\ p_pc = "caller"

\* --------------------------------------------------------- specifications
\* update called with arbitrary arguments, one call after the other
NextUpdate ==
  \/ \E rate \in Rates, st \in StatusInputs :
       \E batch \in SeqsUpTo(SampleVals, MaxFed - Len(fed)) : CallerUpdate(rate, batch, st)
  \/ UpdateBegin
  \/ UpdateSample
  \/ UpdateEnd("caller")

SpecUpdate == InitCaller /\ [][NextUpdate]_vars

\* the poller against the dish
NextPoll ==
  \/ LoopTest
  \/ Connect
  \/ GetStatus
  \/ GetHistory
  \/ UpdateBegin
  \/ UpdateSample
  \/ UpdateEnd("wait")
  \/ IncrementErrorsBegin
  \/ IncrementErrorsEnd("close")
  \/ Close
  \/ Wait
  \/ Cleanup
  \/ Shutdown
  \/ \E r \in SampleVals : DeviceSample(r)
  \/ DeviceReset

SpecPoll == Init /\ [][NextPoll]_vars

\* the steps of the poller thread
PollerStep ==
  \/ LoopTest
  \/ Connect
  \/ GetStatus
  \/ GetHistory
  \/ UpdateBegin
  \/ UpdateSample
  \/ UpdateEnd("wait")
  \/ IncrementErrorsBegin
  \/ IncrementErrorsEnd("close")
  \/ Close
  \/ Wait
  \/ Cleanup

\* shutdown_event.wait(POLL_INTERVAL) returns once the event is set or
\* POLL_INTERVAL seconds have passed
WaitTimed == (shutdown_event \/ p_elapsed >= POLL_INTERVAL) /\ Wait

\* the poller against the dish, the poller thread being scheduled again and
\* again: every device call returns (each has a timeout) and the wait ends
SpecPollFair == SpecPoll /\ WF_vars(PollerStep)

\* a collector whose update is called directly, under any alert threshold
InitAlert ==
  /\ InitCommon
  /\ alert_threshold \in Thresholds
  /\ dish_latency = 0
  /\ p_pc = "caller"

\* update called once per poll cycle, the history batch of each call being the
\* single sample equal to the call's rate
NextAlert ==
  \/ \E rate \in Rates : CallerUpdate(rate, <<rate>>, ServeStatus)
  \/ UpdateBegin
  \/ UpdateSample
  \/ UpdateEnd("caller")

SpecAlert == InitAlert /\ [][NextAlert]_vars

\* a dish whose calls take up to dish_latency seconds
InitRecover ==
  /\ InitCommon
  /\ alert_threshold = ALERT_THRESHOLD
  /\ dish_latency \in 0..MaxLatency
  /\ p_pc = "loop"

\* the steps of the poller thread under the clock
PollerStepTimed ==
  \/ LoopTest
  \/ Connect
  \/ GetStatus
  \/ GetHistory
  \/ UpdateBegin
  \/ UpdateSample
  \/ UpdateEnd("wait")
  \/ IncrementErrorsBegin
  \/ IncrementErrorsEnd("close")
  \/ Close
  \/ WaitTimed

\* the poller under the clock against a dish that fails until it becomes
\* stable and that has recorded at most one sample, before the first cycle;
\* a handler thread serving GET /health; no shutdown
NextRecover ==
  \/ PollerStepTimed
  \/ TickPoll
  \/ Stabilize
  \/ cycles = 0 /\ dev_total < 1 /\ DeviceSample(3)
  \/ Request(1, "/health")
  \/ HealthCheck(1)
  \/ Respond(1)

SpecRecover ==
  InitRecover /\ [][NextRecover]_vars /\ WF_vars(PollerStepTimed) /\ WF_vars(TickPoll)

\* the collector shared by a thread that calls update and increment_errors and
\* the HTTP handler threads, each serving GET /metrics
NextServe ==
  \/ calls < MaxServeCalls /\ CallerUpdate(3, <<0, 3>>, ServeStatus)
  \/ UpdateBegin
  \/ UpdateSample
  \/ UpdateEnd("caller")
  \/ CallerIncrementErrors
  \/ IncrementErrorsBegin
  \/ IncrementErrorsEnd("caller")
  \/ \E h \in Handlers : Request(h, "/metrics")
  \/ \E h \in Handlers : IncrementScrapesBegin(h)
  \/ \E h \in Handlers : IncrementScrapesEnd(h)
  \/ \E h \in Handlers : GetMetrics(h)
  \/ \E h \in Handlers : Respond(h)

SpecServe == InitCaller /\ [][NextServe]_vars

\* a caller feeds update with every batch while one handler serves /metrics
NextRead ==
  \/ \E batch \in SeqsUpTo(SampleVals, MaxFed - Len(fed)) :
       CallerUpdate(3, batch, ServeStatus)
  \/ UpdateBegin
  \/ UpdateSample
  \/ UpdateEnd("caller")
  \/ Request(1, "/metrics")
  \/ IncrementScrapesBegin(1)
  \/ IncrementScrapesEnd(1)
  \/ GetMetrics(1)
  \/ Respond(1)

SpecRead == InitCaller /\ [][NextRead]_vars

\* the steps of the thread that calls update and increment_errors, once called
CallerRun ==
  \/ UpdateBegin
  \/ UpdateSample
  \/ UpdateEnd("caller")
  \/ IncrementErrorsBegin
  \/ IncrementErrorsEnd("caller")

\* the steps of handler thread h, once its request has arrived
HandlerRun(h) ==
  \/ IncrementScrapesBegin(h)
  \/ IncrementScrapesEnd(h)
  \/ GetMetrics(h)
  \/ HealthCheck(h)
  \/ Respond(h)

\* every operation that takes collector.lock, by three threads: a caller of
\* update and increment_errors and two handler threads serving every path;
\* a thread that can take a step again and again eventually takes it
NextLock ==
  \/ calls < MaxServeCalls /\ CallerUpdate(3, <<0, 3>>, ServeStatus)
  \/ CallerIncrementErrors
  \/ CallerRun
  \/ \E h \in Handlers, path \in Paths : Request(h, path)
  \/ \E h \in Handlers : HandlerRun(h)

SpecLock ==
  /\ InitCaller
  /\ [][NextLock]_vars
  /\ SF_vars(CallerRun)
  /\ \A h \in Handlers : SF_vars(HandlerRun(h))

\* the collector under a running clock: a thread that calls update and
\* increment_errors, and one handler thread serving every path
NextClock ==
  \/ \E rate \in {0, 3} : calls < MaxServeCalls /\ CallerUpdate(rate, <<3>>, ServeStatus)
  \/ UpdateBegin
  \/ UpdateSample
  \/ UpdateEnd("caller")
  \/ CallerIncrementErrors
  \/ IncrementErrorsBegin
  \/ IncrementErrorsEnd("caller")
  \/ Tick
  \/ \E path \in Paths : Request(1, path)
  \/ IncrementScrapesBegin(1)
  \/ IncrementScrapesEnd(1)
  \/ GetMetrics(1)
  \/ HealthCheck(1)
  \/ Respond(1)

SpecClock == InitCaller /\ [][NextClock]_vars

\* ------------------------------------------------------------------ claims
\* the samples of fed that update's loop has processed so far
Processed == SubSeq(fed, 1, Len(fed) - (Len(loc_bulk) - (loc_i - 1)))

\* positions of s where a sample > 0 follows a state that is not dropping
\* (the previous sample, or a fresh collector before the first)
DropStarts(s) == {i \in 1..Len(s) : s[i] > 0 /\ (i = 1 \/ ~(s[i - 1] > 0))}

\* positions of s holding a sample > 0
DropSeconds(s) == {i \in 1..Len(s) : s[i] > 0}

Max(S) == CHOOSE x \in S : \A y \in S : y <= x

\* C2 (SpecUpdate): however the samples are cut into batches, drop_events is the
\* number of positions of the whole sample stream where a sample > 0 follows a
\* state that is not dropping -- after every call and after every sample.
C2_BatchBoundaryInvariant == drop_events = Cardinality(DropStarts(Processed))

\* the stream .3, .3, 0, .3 has been fed in three calls and counts two events
C2_Witness ==
  /\ p_pc = "caller"
  /\ calls = 3
  /\ fed = <<3, 3, 0, 3>>
  /\ drop_events = 2

\* C3 (SpecUpdate): total_samples is the number of samples passed so far and
\* total_drop_time the number of those that are > 0.
C3_SampleAndDropTotals ==
  /\ total_samples = Len(Processed)
  /\ total_drop_time = Cardinality(DropSeconds(Processed))
  /\ p_pc = "caller" => Processed = fed

\* two calls have passed four samples, one of them > 0
C3_Witness ==
  /\ p_pc = "caller"
  /\ calls = 2
  /\ Len(fed) = 4
  /\ total_samples = 4
  /\ total_drop_time = 1

\* C4 (SpecUpdate): after the n-th update call (n >= 1, rates in [0,1]),
\* peak_drop_rate is the largest drop_rate argument of calls 1..n.
C4_PeakIsMaxRate == (p_pc = "caller" /\ calls > 0) => peak_drop_rate = Max(rate_set)

\* three calls, the last with a rate below the peak reached earlier
C4_Witness ==
  /\ p_pc = "caller"
  /\ calls = 3
  /\ current_drop_rate = 0
  /\ peak_drop_rate = 3
  /\ Len(fed) > 0

\* C1 (SpecPoll): against a dish whose counter never decreases, no sample is
\* passed to update twice and total_samples never exceeds the number of samples
\* the dish has produced. The code re-delivers the whole buffer when
\* end_counter = last_counter.
C1_NoSampleTwice ==
  ~dev_reset =>
    /\ \A s \in DOMAIN delivered : delivered[s] <= 1
    /\ total_samples <= dev_current

\* the poller has finished a successful cycle that followed at least one failed
\* cycle, with a counter kept from an earlier success and a dish never reset
AfterOutage ==
  /\ p_pc = "wait"
  /\ ~outage
  /\ cyc.after_outage
  /\ ~cyc.reset
  /\ cyc.prev_counter # NoneCounter

\* C10 as stated (SpecPoll): the first successful cycle after an outage makes
\* total_samples grow by exactly end_counter - last_counter, whatever the
\* length of the outage. Stated here for the outages during which the dish's
\* counter advanced; without an advance the cycle re-delivers the buffer (C1).
C10_NothingSkipped ==
  (AfterOutage /\ cyc.end_counter > cyc.prev_counter) =>
    total_samples - cyc.base_total = cyc.end_counter - cyc.prev_counter

\* C10 as amended (SpecPoll): that cycle passes to update the newest samples of
\* the dish's buffer, at least min(end_counter - last_counter, buffer length)
\* of them, so every sample numbered in (last_counter, end_counter] that the
\* buffer still holds; when end_counter > last_counter it passes exactly that
\* many, and total_samples grows by the length of the batch.
C10_NewestBufferedDelivered ==
  AfterOutage =>
    LET k == cyc.end_counter - cyc.prev_counter
        n == Len(cyc.batch)
        held == Len(cyc.hist)
    IN /\ total_samples - cyc.base_total = n
       /\ n <= held
       /\ cyc.batch = LastN(cyc.hist, n)
       /\ n >= Min(k, held)
       /\ k >= 1 => n = Min(k, held)

\* an outage during which the dish produced more samples than its buffer holds
C10_Witness ==
  /\ AfterOutage
  /\ cyc.end_counter - cyc.prev_counter > Len(cyc.hist)
  /\ Len(cyc.hist) = BufCap
  /\ total_samples - cyc.base_total = BufCap

\* C5 (SpecServe): what a get_metrics call reads of the fields update writes is
\* what the last finished update left (or the initial state), never the state
\* in the middle of an update.
C5_GetMetricsAtomic ==
  \A h \in Handlers :
    (h_pc[h] = "respond" /\ h_path[h] = "/metrics") => h_snap[h].upd = h_base[h]

\* a handler holds the snapshot it read after the first update while the second
\* update is in the middle of its history loop
C5_Witness ==
  \E h \in Handlers :
    /\ h_pc[h] = "respond"
    /\ h_path[h] = "/metrics"
    /\ h_snap[h].upd.total_samples = 2
    /\ p_pc = "update_loop"
    /\ total_samples = 3

\* no increment_errors or increment_scrapes call is in progress
NoIncrementInProgress ==
  /\ p_pc \notin {"increment_errors", "increment_errors_store"}
  /\ \A h \in Handlers : h_pc[h] \notin {"increment_scrapes", "increment_scrapes_store"}

\* C7 (SpecServe): once all increment calls have returned, errors_total is the
\* number of increment_errors calls and scrapes_total the number of
\* increment_scrapes calls.
C7_NoLostIncrement ==
  NoIncrementInProgress =>
    /\ errors_total = error_calls
    /\ scrapes_total = scrape_calls

\* two scrapes by two handler threads, an error and an update have all returned
C7_Witness ==
  /\ NoIncrementInProgress
  /\ scrape_calls = 2
  /\ error_calls = 1
  /\ updates_done >= 1
  /\ \A h \in Handlers : h_pc[h] \in {"get_metrics", "respond"}

\* C6 (SpecClock): the counters, the peak and last_update never decrease from
\* one state to the next.
C6_Monotone ==
  [][/\ total_drop_time' >= total_drop_time
     /\ total_samples' >= total_samples
     /\ drop_events' >= drop_events
     /\ errors_total' >= errors_total
     /\ scrapes_total' >= scrapes_total
     /\ peak_drop_rate' >= peak_drop_rate
     /\ last_update' >= last_update]_vars

\* every counter has moved, the clock has advanced between two updates, and the
\* current rate is below the peak
C6_Witness ==
  /\ p_pc = "caller"
  /\ updates_done = 2
  /\ errors_total = 1
  /\ scrapes_total = 1
  /\ total_samples = 2
  /\ current_drop_rate < peak_drop_rate
  /\ last_update > 0

\* C8 (SpecClock): a /health request answers 200 exactly when the age of
\* last_update it read under the lock is below 3 * POLL_INTERVAL, and 503
\* otherwise.
C8_HealthFreshness ==
  \A h \in Handlers :
    (h_pc[h] = "respond" /\ h_path[h] = "/health") =>
      /\ h_resp[h] \in {200, 503}
      /\ h_resp[h] = 200 <=> h_age[h] < 3 * POLL_INTERVAL

\* an update has been made and exactly 3 * POLL_INTERVAL seconds later /health
\* answers 503
C8_Witness ==
  \E h \in Handlers :
    /\ h_pc[h] = "respond"
    /\ h_path[h] = "/health"
    /\ updates_done >= 1
    /\ last_update > 0
    /\ h_age[h] = 3 * POLL_INTERVAL
    /\ h_resp[h] = 503

\* C9 (SpecClock): /health answers 200 only if some update call has completed.
\* The code starts last_update at construction time, so it answers 200 before
\* any update.
C9_HealthyOnlyAfterUpdate ==
  \A h \in Handlers :
    (h_pc[h] = "respond" /\ h_path[h] = "/health" /\ h_resp[h] = 200) =>
      updates_done > 0

\* C11 (SpecUpdate): an update call that was given a status mapping, the
\* mapping without keys included, leaves in every gauge and identity field the
\* mapping's value for its key, or the default where the key is missing. The
\* code tests `if status:`, which an empty mapping fails, so that call keeps
\* the previous values.
C11_StatusDefaulting ==
  [][(p_pc = "update_loop" /\ p_pc' = "caller" /\ loc_status.present) =>
       gauges' = GaugesFrom(loc_status)]_vars

\* C12 (SpecPollFair): once shutdown_event is set the poller starts no new
\* cycle, and wherever it was when the event was set it eventually leaves the
\* loop, calls client.close() and returns, leaving no channel open.
C12_Shutdown ==
  /\ [][shutdown_event => cycles' = cycles]_vars
  /\ shutdown_event ~> (p_pc = "done")
  /\ [](p_pc = "done" => (shutdown_event /\ channel # "open"))

\* the poller has returned after a successful cycle and has closed the channel
\* that cycle used
C12_Witness ==
  /\ p_pc = "done"
  /\ shutdown_event
  /\ updates_done >= 1
  /\ ~outage
  /\ channel = "closed"

\* the cycle in progress has reached its wait and its get_status or get_history failed
FailedConnected ==
  /\ p_pc = "wait"
  /\ cs.started
  /\ cs.failed \in {"get_status", "get_history"}

\* C13 (SpecPoll): a cycle in which get_status or get_history fails adds exactly
\* 1 to errors_total, leaves client.channel None, does not call update (no field
\* update writes has changed) and keeps last_counter.
C13_FailedCycle ==
  FailedConnected =>
    /\ errors_total = cs.errors_total + 1
    /\ channel = "None"
    /\ updates_done = cs.updates_done
    /\ CollectorFields = cs.fields
    /\ last_counter = cs.last_counter

\* a cycle that started Connected, after a cycle that had delivered samples,
\* has failed in get_history
C13_Witness ==
  /\ FailedConnected
  /\ cs.failed = "get_history"
  /\ cs.connected
  /\ cs.last_counter >= 1
  /\ total_samples >= 1
  /\ errors_total = 1

\* C14 (SpecPoll): a cycle that starts Disconnected attempts connect; a failed
\* connect adds exactly 1 to errors_total and leaves client.channel None, so
\* the cycle after the wait attempts connect again; and the poller is past its
\* loop only if shutdown_event has been set.
C14_ErrorsNeverEndLoop ==
  /\ [][(p_pc = "loop" /\ p_pc' \notin {"loop", "cleanup"} /\ channel = "None") =>
          p_pc' = "connect"]_vars
  /\ []((p_pc = "wait" /\ cs.started /\ cs.failed = "connect") =>
          (/\ ~cs.connected
           /\ errors_total = cs.errors_total + 1
           /\ channel = "None"
           /\ updates_done = cs.updates_done
           /\ last_counter = cs.last_counter))
  /\ [][p_pc = "wait" => p_pc' \in {"wait", "loop"}]_vars
  /\ [](p_pc \in {"cleanup", "done"} => shutdown_event)

\* every cycle so far has failed in connect and the poller is waiting to try again
C14_Witness ==
  /\ p_pc = "wait"
  /\ cs.failed = "connect"
  /\ cycles = MaxCycles
  /\ errors_total = MaxCycles
  /\ ~shutdown_event

\* the last cycle has called update and no cycle has failed since
Recovered ==
  /\ ~outage
  /\ updates_done > 0
  /\ p_pc \notin {"update", "update_loop"}

\* the calls of a cycle and the wait together take less than 3 * POLL_INTERVAL
FastDish == POLL_INTERVAL + 2 * dish_latency < 3 * POLL_INTERVAL

\* once the dish is stable, and while the cycles and the clock of the model
\* allow another cycle, the poller gets Connected and calls update
RecoveryLiveness ==
  (stable /\ cycles < MaxCycles /\ now + POLL_INTERVAL + 3 * dish_latency <= MaxTime)
    ~> (Recovered /\ channel = "open")

\* a cycle none of whose calls failed has called update and stays Connected
CycleCallsUpdate ==
  [](((p_pc = "wait" /\ cs.started /\ cs.failed = "none") =>
        (updates_done = cs.updates_done + 1 /\ channel = "open")))

\* C15 as stated (SpecRecover): once the dish answers, the poller gets Connected
\* and calls update in every cycle, and from the first of these updates on
\* every /health request answers 200.
C15_HealthKeeps200 ==
  /\ RecoveryLiveness
  /\ CycleCallsUpdate
  /\ [][(h_pc[1] = "health" /\ h_pc'[1] = "respond" /\ stable /\ Recovered) =>
          h_resp'[1] = 200]_vars

\* C15 as amended (SpecRecover): the same, and /health answers 200 from the
\* first update on provided the dish answers fast enough for a cycle and its
\* wait to take less than 3 * POLL_INTERVAL.
C15_RecoveryWithFastDish ==
  /\ RecoveryLiveness
  /\ CycleCallsUpdate
  /\ [][(h_pc[1] = "health" /\ h_pc'[1] = "respond" /\ Recovered /\ FastDish) =>
          h_resp'[1] = 200]_vars

\* after a failed cycle the dish has become stable; two cycles later, with each
\* call taking a second, /health reads an age of POLL_INTERVAL + 2 and answers 200
C15_Witness ==
  /\ stable
  /\ errors_total >= 1
  /\ Recovered
  /\ dish_latency = 1
  /\ h_pc[1] = "respond"
  /\ h_age[1] = POLL_INTERVAL + 2
  /\ h_resp[1] = 200

\* the cycle in progress has reached its wait without a failed call
SucceededCycle ==
  /\ p_pc = "wait"
  /\ cs.started
  /\ cs.failed = "none"

\* ... and the dish reported a counter below last_counter
RegressionCycle ==
  /\ SucceededCycle
  /\ cs.last_counter # NoneCounter
  /\ cyc.end_counter < cs.last_counter

\* C16 (SpecPoll): a cycle in which the dish reports a counter below
\* last_counter counts no error, stays Connected, calls update with the whole
\* buffer, and leaves last_counter at the reported counter; a later cycle in
\* which the counter has advanced fetches only the samples since that baseline.
C16_RegressionResync ==
  /\ RegressionCycle =>
       /\ errors_total = cs.errors_total
       /\ channel = "open"
       /\ updates_done = cs.updates_done + 1
       /\ last_counter = cyc.end_counter
       /\ cyc.batch = cyc.hist
       /\ total_samples = cs.fields.upd.total_samples + Len(cyc.hist)
  /\ (SucceededCycle /\ cyc.reset /\ cs.last_counter # NoneCounter
         /\ cyc.end_counter > cs.last_counter) =>
       /\ cyc.prev_counter = cs.last_counter
       /\ cyc.batch = LastN(cyc.hist, Min(cyc.end_counter - cs.last_counter, Len(cyc.hist)))
       /\ last_counter = cyc.end_counter

\* the dish has rebooted after the poller had read counter 2 and has recorded
\* one sample since; the cycle has passed that sample on
C16_Witness ==
  /\ RegressionCycle
  /\ cs.last_counter = 2
  /\ cyc.end_counter = 1
  /\ Len(cyc.batch) = 1
  /\ total_samples >= 2

\* the collector after update calls whose rates, each also the single sample of
\* its call, were s and whose status was ServeStatus -- no threshold in it
AfterCalls(s) ==
  [upd |-> [current_drop_rate |-> IF Len(s) = 0 THEN 0 ELSE s[Len(s)],
            peak_drop_rate |-> Max({0} \cup {s[i] : i \in 1..Len(s)}),
            total_drop_time |-> Cardinality(DropSeconds(s)),
            total_samples |-> Len(s),
            drop_events |-> Cardinality(DropStarts(s)),
            last_update |-> 0,
            gauges |-> IF Len(s) = 0 THEN InitGauges ELSE GaugesFrom(ServeStatus)],
   last_was_dropping |-> Len(s) > 0 /\ s[Len(s)] > 0]

\* C17 (SpecAlert): each update call emits one warning if its rate is above the
\* threshold and none otherwise; the collector after any sequence of calls is
\* the same under every threshold; and the rates 0.0, 0.3, 0.0 under threshold
\* 0.1 give one warning, drop_events 1, total_drop_time 1, total_samples 3.
C17_AlertOnlyLogs ==
  p_pc = "caller" =>
    /\ warnings = Cardinality({i \in 1..Len(fed) : fed[i] > alert_threshold})
    /\ CollectorFields = AfterCalls(fed)
    /\ errors_total = 0 /\ scrapes_total = 0
    /\ (alert_threshold = ALERT_THRESHOLD /\ fed = <<0, 3, 0>>) =>
         (warnings = 1 /\ drop_events = 1 /\ total_drop_time = 1 /\ total_samples = 3)

\* the three calls with rates 0.0, 0.3, 0.0 have returned under threshold 0.1
C17_Witness ==
  /\ p_pc = "caller"
  /\ alert_threshold = ALERT_THRESHOLD
  /\ fed = <<0, 3, 0>>
  /\ warnings = 1
  /\ drop_events = 1

\* the poller is inside, or about to make, a call of the client
InDeviceCall == p_pc \in {"connect", "get_status", "get_history", "close", "cleanup"}

\* C18 (SpecPoll): the poller, the only thread of this specification that takes
\* collector.lock, does not hold it while it is in connect, get_status,
\* get_history or close, nor while it waits; it holds the lock only inside
\* update and increment_errors, after the device calls of the cycle.
C18_NoDeviceCallUnderLock ==
  /\ (InDeviceCall \/ p_pc \in {"loop", "wait", "done"}) => ~lock
  /\ lock => p_pc \in {"update_loop", "increment_errors_store"}

\* the poller is in get_history of a later cycle, after an update and an error
\* path have each taken and released the lock
C18_Witness ==
  /\ p_pc = "get_history"
  /\ updates_done >= 1
  /\ errors_total >= 1
  /\ ~lock

\* threads inside a `with self.lock` block that spans more than one step
InCriticalSection ==
  (IF p_pc \in {"update_loop", "increment_errors_store"} THEN {0} ELSE {})
    \cup {h \in Handlers : h_pc[h] = "increment_scrapes_store"}

\* threads at the entry of a `with self.lock` block
CallerAtLock == p_pc \in {"update", "increment_errors"}
HandlerAtLock(h) == h_pc[h] \in {"increment_scrapes", "get_metrics", "health"}

\* C19 (SpecLock): the lock is held exactly while one thread is inside a
\* critical section, a thread at the entry of one never holds it, so the
\* threads are never all blocked; and with fair scheduling every thread at the
\* entry of a critical section gets past it.
C19_DeadlockFree ==
  /\ [](Cardinality(InCriticalSection) = (IF lock THEN 1 ELSE 0))
  /\ [](~(lock /\ CallerAtLock /\ \A h \in Handlers : HandlerAtLock(h)))
  /\ (p_pc = "update") ~> (p_pc = "update_loop")
  /\ (p_pc = "increment_errors") ~> (p_pc = "increment_errors_store")
  /\ \A h \in Handlers :
       /\ (h_pc[h] = "increment_scrapes") ~> (h_pc[h] = "increment_scrapes_store")
       /\ (h_pc[h] = "get_metrics") ~> (h_pc[h] = "respond")
       /\ (h_pc[h] = "health") ~> (h_pc[h] = "respond")

\* update holds the lock in the middle of its loop while one handler waits to
\* count a scrape and the other waits to read last_update for /health
C19_Witness ==
  /\ lock
  /\ p_pc = "update_loop"
  /\ total_samples = 1
  /\ h_pc[1] = "increment_scrapes"
  /\ h_pc[2] = "health"

\* handlers whose /metrics request has not yet counted itself
NotYetCounted ==
  {h \in Handlers : h_pc[h] \in {"increment_scrapes", "increment_scrapes_store"}}

\* C20 (SpecClock): no step of a handler changes a collector field other than
\* scrapes_total, which only the increment of a /metrics request changes, by 1
\* and once per request; /health and other paths never reach that increment;
\* /metrics answers 200, /health 200 or 503, any other path 404.
C20_Routes ==
  /\ [][\A h \in Handlers :
          h_pc'[h] # h_pc[h] =>
            /\ CollectorFields' = CollectorFields
            /\ errors_total' = errors_total
            /\ last_counter' = last_counter
            /\ scrapes_total' = IF h_pc[h] = "increment_scrapes_store"
                                THEN scrapes_total + 1 ELSE scrapes_total]_vars
  /\ [](\A h \in Handlers :
          /\ h_pc[h] \in {"increment_scrapes", "increment_scrapes_store", "get_metrics"}
               => h_path[h] = "/metrics"
          /\ h_pc[h] = "health" => h_path[h] = "/health"
          /\ h_pc[h] = "respond" =>
               h_resp[h] \in (IF h_path[h] = "/metrics" THEN {200}
                              ELSE IF h_path[h] = "/health" THEN {200, 503}
                              ELSE {404}))
  /\ [](scrapes_total = scrape_reqs - Cardinality(NotYetCounted))

\* the second /metrics request is about to be answered after an update, an
\* error and a first scrape
C20_Witness ==
  /\ h_pc[1] = "respond"
  /\ h_path[1] = "/metrics"
  /\ h_resp[1] = 200
  /\ scrapes_total = 2
  /\ updates_done >= 1
  /\ errors_total = 1

\* drop_events <= total_drop_time <= total_samples in a record of update's fields
Ordered(f) == f.drop_events <= f.total_drop_time /\ f.total_drop_time <= f.total_samples

\* C21 (SpecRead): every get_metrics result, and the collector whenever the lock
\* is free for a reader, has drop_events <= total_drop_time <= total_samples,
\* for every sequence of batches and every interleaving with update.
C21_CounterOrdering ==
  /\ \A h \in Handlers : Ordered(h_snap[h].upd)
  /\ ~lock => Ordered(UpdateFields)

\* a handler holds a result with 0 < drop_events < total_drop_time < total_samples
\* while the caller is inside its second update
C21_Witness ==
  /\ h_pc[1] = "respond"
  /\ h_snap[1].upd.drop_events = 1
  /\ h_snap[1].upd.total_drop_time = 2
  /\ h_snap[1].upd.total_samples = 3
  /\ calls = 2
  /\ p_pc = "update_loop"

\* handler h has rendered /metrics and is about to write the response
Rendered(h) == h_pc[h] = "respond" /\ h_path[h] = "/metrics"

\* C22 (SpecServe): the scrapes_total shown in a /metrics response is at least 1,
\* at least one more than the number of increment_scrapes calls completed before
\* the request's own, and at least every value shown in a response that was
\* finished before the request began.
C22_ScrapeCountsItself ==
  \A h \in Handlers :
    Rendered(h) =>
      /\ h_snap[h].scrapes_total >= 1
      /\ h_snap[h].scrapes_total >= h_before[h] + 1
      /\ h_snap[h].scrapes_total >= h_floor[h]

\* the first request to increment has rendered after a concurrent request's
\* increment, and shows both
C22_Witness ==
  \E h \in Handlers :
    /\ Rendered(h)
    /\ h_before[h] = 0
    /\ h_snap[h].scrapes_total = 2

\* C23 (SpecPoll): connect is reached only with client.channel None and no channel
\* open; before a cycle starts client.channel is None exactly when no cycle has
\* succeeded since the start or since the last failed cycle; the only channel
\* that can be open is the one client.channel holds, so at most one is open; and
\* none is open once the poller has returned.
C23_HandleDiscipline ==
  /\ p_pc = "connect" => (channel = "None" /\ open_channels = 0)
  /\ p_pc = "loop" => ((channel = "None") <=> (outage \/ updates_done = 0))
  /\ open_channels = IF channel = "open" THEN 1 ELSE 0
  /\ p_pc = "done" => open_channels = 0

\* after a successful cycle and a failed one, whose channel has been closed, the
\* third cycle is about to connect again
C23_Witness ==
  /\ p_pc = "connect"
  /\ cycles = 3
  /\ updates_done = 1
  /\ errors_total = 1
  /\ outage

\* the update of the first successful cycle has returned and the cycle is not over
FirstSuccess == p_pc = "wait" /\ cs.started /\ cs.updates_done = 0 /\ updates_done = 1

\* C24 (SpecPoll): the first successful cycle finds last_counter None, get_history
\* returns the dish's whole buffer, and after the cycle total_samples is the
\* length of that buffer, last_counter the dish's counter, and total_drop_time
\* and drop_events count the buffer's drop seconds and drop starts.
C24_InitialBaseline ==
  FirstSuccess =>
    /\ cyc.prev_counter = NoneCounter
    /\ cyc.batch = cyc.hist
    /\ total_samples = Len(cyc.hist)
    /\ last_counter = cyc.end_counter
    /\ total_drop_time = Cardinality(DropSeconds(cyc.hist))
    /\ drop_events = Cardinality(DropStarts(cyc.hist))

\* after a failed cycle the first successful one has taken in a full buffer, with
\* a drop in it, of a dish that had produced more samples than the buffer holds
C24_Witness ==
  /\ FirstSuccess
  /\ errors_total = 1
  /\ cyc.end_counter = MaxCounter
  /\ total_samples = BufCap
  /\ drop_events = 1

====
